---- MODULE Spec2Model ----
(***************************************************************************)
(* Model of vfh::music (flowergarden): populate() builds a Node tree from  *)
(* a directory tree, update_art() resolves the cover art of one path.      *)
(*                                                                         *)
(* A file name is a sequence of tokens: "." is the extension separator and *)
(* every other token is a run of characters without a dot, so that         *)
(* "A.mp3" is <<"A", ".", "mp3">> and ".jpg" is <<".", "jpg">>.  A path is  *)
(* the sequence of the names below the filesystem root; <<>> is the root   *)
(* "/" itself.  All names are ASCII, so to_string_lossy() and to_str()     *)
(* return the name unchanged and a Node key is the stem's token sequence.  *)
(***************************************************************************)
EXTENDS Naturals, Sequences, FiniteSets

VARIABLES
    fsDirs,     \* the paths that are directories (the root "/" is implicit)
    fsFiles,    \* the paths that exist and are not directories
    base,       \* config.base, the path main() hands to populate
    tree,       \* the Node main() hands to populate
    stack,      \* the active populate calls, outermost first
    result,     \* "idle", "running", "Ok" or "Err": the outermost call
    err,        \* the io::Error being returned, NoErr if none
    yielded,    \* the paths the read_dir iterators have yielded so far
    superseded, \* those of them that were followed, in the listing order of
                \* their directory, by a directory or audio file of their stem
    artPath,    \* the argument of a direct call of update_art
    artResult,  \* what that call returned
    artCalled   \* whether the direct call has been made

vars == <<fsDirs, fsFiles, base, tree, stack, result, err, yielded,
          superseded, artPath, artResult, artCalled>>

\* what the listing has done so far: bookkeeping, no state of the program
listing == <<yielded, superseded>>

artVars == <<artPath, artResult, artCalled>>

----------------------------------------------------------------------------
(* Bounds of the model *)

\* the most names a path of the filesystem has
MaxDepth == 3
\* the most files and directories the filesystem holds
MaxFsSize == 4

----------------------------------------------------------------------------
(* Names *)

Dot == "."

\* The name "..".
DotDot == <<Dot, Dot>>

\* The names of the filesystems a library is built from: directories with
\* and without a dot, audio files that share a stem, an upper-case extension.
LibraryDirNames == { <<"A">>, <<"B">>, <<"A", Dot, "x">> }

LibraryFileNames ==
    { <<"A", Dot, "mp3">>, <<"A", Dot, "ogg">>, <<"B", Dot, "MP3">> }

\* The names of the filesystems that hold cover art.
ArtDirNames == { <<"A">>, <<"B">> }

ArtFileNames ==
    { <<"A", Dot, "mp3">>, <<"B", Dot, "mp3">>,
      <<"A", Dot, "webp">>, <<"A", Dot, "png">>, <<Dot, "png">> }

\* The value of config.base: "/" or "/A".
BaseChoices == { <<>>, << <<"A">> >> }

\* PathBuf::new(), the empty path: no name sequence below "/" equals it.
EmptyPath == << <<>> >>

\* The index of the last "." of a name, 0 if it has none.
LastDot(name) ==
    LET dots == { i \in 1..Len(name) : name[i] = Dot }
    IN  IF dots = {} THEN 0
        ELSE CHOOSE i \in dots : \A j \in dots : j <= i

\* Path::file_stem of a file name, <<>> for None (unwrap_or("")): a path that
\* ends in ".." has no file name.
NameStem(name) ==
    LET i == LastDot(name)
    IN  IF name = DotDot THEN <<>>
        ELSE IF i <= 1 THEN name
        ELSE SubSeq(name, 1, i - 1)

\* Path::extension of a file name, <<>> for None (unwrap_or("")).
NameExtension(name) ==
    LET i == LastDot(name)
    IN  IF name = DotDot THEN <<>>
        ELSE IF i <= 1 THEN <<>>
        ELSE SubSeq(name, i + 1, Len(name))

\* path.file_stem().unwrap_or(OsStr::new("")): "/" has no file name.
FileStem(path) ==
    IF path = <<>> \/ path = EmptyPath THEN <<>>
    ELSE NameStem(path[Len(path)])

\* path.extension().unwrap_or(OsStr::new(""))
Extension(path) ==
    IF path = <<>> \/ path = EmptyPath THEN <<>>
    ELSE NameExtension(path[Len(path)])

\* PathBuf::pop: drops the last name; does nothing on "/".
Pop(path) ==
    IF path = <<>> \/ path = EmptyPath THEN path
    ELSE SubSeq(path, 1, Len(path) - 1)

\* PathBuf::push of a relative name.
Push(path, name) == Append(path, name)

----------------------------------------------------------------------------
(* The filesystem *)

\* The file or directory the kernel reaches by walking the names of rest from
\* the directory cur: ".." steps to the parent, and a name below something
\* that is not a directory reaches nothing (EmptyPath).
RECURSIVE Walk(_, _)
Walk(cur, rest) ==
    IF rest = <<>> THEN cur
    ELSE IF ~(cur = <<>> \/ cur \in fsDirs) THEN EmptyPath
    ELSE IF Head(rest) = DotDot THEN Walk(Pop(cur), Tail(rest))
    ELSE Walk(Push(cur, Head(rest)), Tail(rest))

\* What a path names: itself when it has no "..", since a file or directory
\* is only ever below directories; what the walk from "/" reaches otherwise.
Resolve(path) ==
    IF \A i \in DOMAIN path : path[i] # DotDot THEN path
    ELSE Walk(<<>>, path)

\* Path::is_dir
IsDir(path) ==
    LET target == Resolve(path)
    IN  path # EmptyPath /\ (target = <<>> \/ target \in fsDirs)

\* Path::exists
Exists(path) ==
    LET target == Resolve(path)
    IN  /\ path # EmptyPath
        /\ (target = <<>> \/ target \in fsDirs \/ target \in fsFiles)

\* The children of a directory, as read_dir yields them (in any order).
Children(dir) ==
    { p \in fsDirs \cup fsFiles : Len(p) = Len(dir) + 1 /\ Pop(p) = dir }

\* The ways to add one file or directory to the filesystem <<dirs, files>>.
Grow(fs, dirNames, fileNames) ==
    LET parents == { d \in fs[1] \cup { <<>> } : Len(d) < MaxDepth }
        free(p) == p \notin fs[1] /\ p \notin fs[2]
    IN  { << fs[1] \cup { Push(d[1], d[2]) }, fs[2] >> :
            d \in { x \in parents \X dirNames : free(Push(x[1], x[2])) } }
        \cup
        { << fs[1], fs[2] \cup { Push(d[1], d[2]) } >> :
            d \in { x \in parents \X fileNames : free(Push(x[1], x[2])) } }

\* The filesystems of at most n files and directories, as pairs <<dirs, files>>.
RECURSIVE FileSystems(_, _, _)
FileSystems(dirNames, fileNames, n) ==
    IF n = 0 THEN { << {}, {} >> }
    ELSE LET smaller == FileSystems(dirNames, fileNames, n - 1)
         IN  smaller \cup UNION { Grow(fs, dirNames, fileNames) : fs \in smaller }

----------------------------------------------------------------------------
(* update_art *)

\* The candidate extensions, in order of precedence.
extensions ==
    << <<Dot, "webp">>, <<Dot, "apng">>, <<Dot, "gif">>, <<Dot, "avif">>,
       <<Dot, "svg">>, <<Dot, "png">>, <<Dot, "jpeg">>, <<Dot, "jpg">> >>

\* The least element of a non-empty set of numbers.
Min(S) == CHOOSE i \in S : \A j \in S : i <= j

\* The path the first loop of update_art tests for extensions[i].
SelfCandidate(path, i) ==
    LET name == FileStem(path) \o extensions[i]
    IN  IF IsDir(path) THEN Push(path, name) ELSE Push(Pop(path), name)

\* ParentCandidate with the parent handled like a file: the candidate is
\* looked for next to the parent, not inside it.
ParentCandidateBeside(path, i) ==
    LET pb == Pop(path)
    IN  Push(Pop(pb), FileStem(pb) \o extensions[i])

\* The path the second loop of update_art tests for extensions[i].
ParentCandidate(path, i) ==
    LET pb == Pop(path)
    IN  Push(pb, FileStem(pb) \o extensions[i])

\* The greatest element of a non-empty set of numbers.
Max(S) == CHOOSE i \in S : \A j \in S : j <= i

\* SelfSearch with the loop keeping the last candidate that exists.
SelfSearchLast(path) ==
    LET hits == { i \in DOMAIN extensions : Exists(SelfCandidate(path, i)) }
    IN  IF FileStem(path) = <<>> \/ hits = {} THEN EmptyPath
        ELSE SelfCandidate(path, Max(hits))

\* The first loop: the first candidate that exists, EmptyPath if the loop
\* ends or breaks without returning.
SelfSearch(path) ==
    LET hits == { i \in DOMAIN extensions : Exists(SelfCandidate(path, i)) }
    IN  IF FileStem(path) = <<>> THEN EmptyPath
        ELSE IF hits = {} THEN EmptyPath
        ELSE SelfCandidate(path, Min(hits))

\* The second loop, on the popped path.
ParentSearch(path) ==
    LET hits == { i \in DOMAIN extensions : Exists(ParentCandidate(path, i)) }
    IN  IF FileStem(Pop(path)) = <<>> THEN EmptyPath
        ELSE IF hits = {} THEN EmptyPath
        ELSE ParentCandidate(path, Min(hits))

\* update_art with the empty stem of the first loop ending the function
\* (return, not break).
update_art_returning(path) ==
    LET found == SelfSearch(path)
    IN  IF FileStem(path) = <<>> THEN EmptyPath
        ELSE IF found # EmptyPath THEN found
        ELSE ParentSearch(path)

update_art(path) ==
    LET found == SelfSearch(path)
    IN  IF found # EmptyPath THEN found ELSE ParentSearch(path)

----------------------------------------------------------------------------
(* Node and Entry *)

\* Node::new()
EmptyNode == << >>

\* Insert that keeps the entry already stored under the key.
InsertIfAbsent(node, key, entry) ==
    [ k \in DOMAIN node \cup { key } |->
        IF k \in DOMAIN node THEN node[k] ELSE entry ]

\* Insert that keeps the children of the entry already stored under the key.
InsertKeepingChildren(node, key, entry) ==
    [ k \in DOMAIN node \cup { key } |->
        IF k # key THEN node[k]
        ELSE IF k \in DOMAIN node
             THEN [ entry EXCEPT !.child = node[k].child ]
             ELSE entry ]

\* BTreeMap::insert: the entry replaces the one stored under the key, if any.
Insert(node, key, entry) ==
    [ k \in DOMAIN node \cup { key } |-> IF k = key THEN entry ELSE node[k] ]

\* The Node reached from node through the child fields of the entries keys.
RECURSIVE NodeAt(_, _)
NodeAt(node, keys) ==
    IF keys = <<>> THEN node
    ELSE NodeAt(node[Head(keys)].child, Tail(keys))

\* InsertAt with the recursion handed the caller's Node, not the child Node.
InsertAtCaller(node, keys, key, entry) == Insert(node, key, entry)

\* node with the entry inserted into the Node that NodeAt(node, keys) is.
RECURSIVE InsertAt(_, _, _, _)
InsertAt(node, keys, key, entry) ==
    IF keys = <<>> THEN Insert(node, key, entry)
    ELSE [ node EXCEPT ![Head(keys)].child =
                           InsertAt(@, Tail(keys), key, entry) ]

\* The allow-list of audio extensions.
AudioExtensions ==
    { <<"mp3">>, <<"ogg">>, <<"opus">>, <<"wav">>, <<"aac">>, <<"flac">> }

\* IsAudio with the extension lower-cased before the comparison.
ToLower(token) == IF token = "MP3" THEN "mp3" ELSE token

IsAudioIgnoringCase(path) ==
    [ i \in DOMAIN Extension(path) |-> ToLower(Extension(path)[i]) ]
        \in AudioExtensions

\* path.extension() is one of the allowed extensions, compared as written.
IsAudio(path) == Extension(path) \in AudioExtensions

\* NextEntry with parent taken from the directory above dir.
NextEntryOfGrandparent(dir, path) ==
    [ src |-> path, art |-> update_art(path), parent |-> FileStem(Pop(dir)),
      child |-> EmptyNode ]

\* The Entry populate builds for a child path of dir.
NextEntry(dir, path) ==
    [ src |-> path, art |-> update_art(path), parent |-> FileStem(dir),
      child |-> EmptyNode ]

----------------------------------------------------------------------------
(* populate, one step of its loop at a time *)

NoErr == [ dir |-> <<>>, what |-> "none" ]

\* The io::Error of a failed read_dir(dir) or of a failed entry of its iterator.
IoError(dir, what) == [ dir |-> dir, what |-> what ]

\* A call populate(dir, node): node is NodeAt(tree, keys); pc is "enter"
\* before dir.is_dir() and read_dir, "loop" inside the for loop; todo holds
\* the entries the iterator has not yielded yet.
Frame(dir, keys) == [ dir |-> dir, keys |-> keys, pc |-> "enter", todo |-> {} ]

Top == stack[Len(stack)]

Running == result = "running" /\ err = NoErr /\ stack # <<>>

SetTop(frame) == [ stack EXCEPT ![Len(stack)] = frame ]

\* The call on top of the stack returns to its caller, or to main.
Return(value) ==
    /\ stack' = SubSeq(stack, 1, Len(stack) - 1)
    /\ result' = IF Len(stack) = 1 THEN value ELSE result

\* The arguments of a direct call of the public update_art: "/", the empty
\* path, and every name, present or not, and "..", in every directory.
ArtArguments(dirs) ==
    { <<>>, EmptyPath }
    \cup { Push(x[1], x[2]) :
             x \in (dirs \cup { <<>> })
                     \X (ArtDirNames \cup ArtFileNames \cup { DotDot }) }

\* A child populate makes an Entry for: a directory or an audio file.
Qualifies(p) ==
    p \in fsDirs \/ (p \in fsFiles /\ Extension(p) \in AudioExtensions)

\* q is another directory or audio file of p's directory with p's stem.
SameKey(p, q) ==
    /\ q # p /\ Pop(q) = Pop(p) /\ FileStem(q) = FileStem(p)
    /\ Qualifies(q)

\* The iterator yields the directory or audio file path: the directories and
\* audio files of its stem yielded before it are superseded.
YieldEntry(path) ==
    /\ yielded' = yielded \cup { path }
    /\ superseded' =
         superseded \cup { q \in yielded : SameKey(path, q) }

\* The state main() starts in, on one of the filesystems.
InitOn(fileSystems) ==
    /\ \E fs \in fileSystems : fsDirs = fs[1] /\ fsFiles = fs[2]
    /\ base \in BaseChoices
    /\ tree = EmptyNode
    /\ stack = <<>>
    /\ result = "idle"
    /\ err = NoErr
    /\ yielded = {}
    /\ superseded = {}
    /\ artResult = EmptyPath
    /\ artCalled = FALSE

Init ==
    /\ InitOn(FileSystems(LibraryDirNames, LibraryFileNames, MaxFsSize))
    /\ artPath = EmptyPath

InitArt ==
    /\ InitOn(FileSystems(ArtDirNames, ArtFileNames, MaxFsSize))
    /\ artPath = EmptyPath

InitUpdateArt ==
    /\ InitOn(FileSystems(ArtDirNames, ArtFileNames, MaxFsSize))
    /\ artPath \in ArtArguments(fsDirs)

\* main: populate(&config.base, &mut tree)
CallPopulate ==
    /\ result = "idle"
    /\ result' = "running"
    /\ stack' = << Frame(base, <<>>) >>
    /\ UNCHANGED <<fsDirs, fsFiles, base, tree, err, listing, artVars>>

\* dir.is_dir() is false: the call returns Ok(()) without touching node.
NotADirectory ==
    /\ Running /\ Top.pc = "enter"
    /\ ~IsDir(Top.dir)
    /\ Return("Ok")
    /\ UNCHANGED <<fsDirs, fsFiles, base, tree, err, listing, artVars>>

\* read_dir(&dir)? succeeds: the loop starts.
ReadDir ==
    /\ Running /\ Top.pc = "enter"
    /\ IsDir(Top.dir)
    /\ stack' = SetTop([ Top EXCEPT !.pc = "loop", !.todo = Children(Top.dir) ])
    /\ UNCHANGED <<fsDirs, fsFiles, base, tree, result, err, listing, artVars>>

\* read_dir(&dir)? fails: the call returns the error.
ReadDirFails ==
    /\ Running /\ Top.pc = "enter"
    /\ IsDir(Top.dir)
    /\ err' = IoError(Top.dir, "read_dir")
    /\ Return("Err")
    /\ UNCHANGED <<fsDirs, fsFiles, base, tree, listing, artVars>>

\* entry? fails inside the loop: the call returns the error.
EntryFails ==
    /\ Running /\ Top.pc = "loop"
    /\ Top.todo # {}
    /\ err' = IoError(Top.dir, "entry")
    /\ Return("Err")
    /\ UNCHANGED <<fsDirs, fsFiles, base, tree, listing, artVars>>

\* The iterator yields a directory: its Entry is inserted under its stem and
\* populate is called on it with the child Node of the entry stored there.
VisitDirectory ==
    /\ Running /\ Top.pc = "loop"
    /\ \E path \in Top.todo :
         /\ IsDir(path)
         /\ LET name == FileStem(path)
            IN  /\ tree' = InsertAt(tree, Top.keys, name, NextEntry(Top.dir, path))
                /\ stack' = Append(SetTop([ Top EXCEPT !.todo = @ \ { path } ]),
                                   Frame(path, Append(Top.keys, name)))
         /\ YieldEntry(path)
    /\ UNCHANGED <<fsDirs, fsFiles, base, result, err, artVars>>

\* The iterator yields a file with an allowed extension: its Entry is inserted.
VisitAudioFile ==
    /\ Running /\ Top.pc = "loop"
    /\ \E path \in Top.todo :
         /\ ~IsDir(path)
         /\ IsAudio(path)
         /\ tree' = InsertAt(tree, Top.keys, FileStem(path),
                             NextEntry(Top.dir, path))
         /\ stack' = SetTop([ Top EXCEPT !.todo = @ \ { path } ])
         /\ YieldEntry(path)
    /\ UNCHANGED <<fsDirs, fsFiles, base, result, err, artVars>>

\* The iterator yields any other file: nothing is inserted.
SkipFile ==
    /\ Running /\ Top.pc = "loop"
    /\ \E path \in Top.todo :
         /\ ~IsDir(path)
         /\ ~IsAudio(path)
         /\ stack' = SetTop([ Top EXCEPT !.todo = @ \ { path } ])
         /\ yielded' = yielded \cup { path }
         /\ UNCHANGED superseded
    /\ UNCHANGED <<fsDirs, fsFiles, base, tree, result, err, artVars>>

\* The iterator is exhausted: Ok(()).
ReturnOk ==
    /\ Running /\ Top.pc = "loop"
    /\ Top.todo = {}
    /\ Return("Ok")
    /\ UNCHANGED <<fsDirs, fsFiles, base, tree, err, listing, artVars>>

\* PropagateError with the result of the inner call dropped: the loop of the
\* caller goes on.
DropError ==
    /\ result = "running" /\ err # NoErr /\ stack # <<>>
    /\ err' = NoErr
    /\ UNCHANGED <<fsDirs, fsFiles, base, tree, stack, result, listing, artVars>>

\* populate(..)? in the caller: the error of the inner call is returned.
PropagateError ==
    /\ result = "running" /\ err # NoErr /\ stack # <<>>
    /\ Return("Err")
    /\ UNCHANGED <<fsDirs, fsFiles, base, tree, err, listing, artVars>>

Next ==
    \/ CallPopulate
    \/ NotADirectory
    \/ ReadDir
    \/ ReadDirFails
    \/ EntryFails
    \/ VisitDirectory
    \/ VisitAudioFile
    \/ SkipFile
    \/ ReturnOk
    \/ PropagateError

Spec == Init /\ [][Next]_vars

\* populate on the filesystems that hold cover art
SpecArt == InitArt /\ [][Next]_vars

\* update_art(&artPath), called directly.
CallUpdateArt ==
    /\ ~artCalled
    /\ artCalled' = TRUE
    /\ artResult' = update_art(artPath)
    /\ UNCHANGED <<fsDirs, fsFiles, base, tree, stack, result, err, listing,
                   artPath>>

NextUpdateArt == CallUpdateArt

SpecUpdateArt == InitUpdateArt /\ [][NextUpdateArt]_vars

----------------------------------------------------------------------------
(* What the claims speak of *)

\* Every Entry of a Node, at any depth.
RECURSIVE AllEntries(_)
AllEntries(node) ==
    UNION { { node[k] } \cup AllEntries(node[k].child) : k \in DOMAIN node }

\* The key sequences that lead from a Node to an Entry, at any depth.
RECURSIVE KeyPaths(_)
KeyPaths(node) ==
    UNION { { <<k>> } \cup { <<k>> \o ks : ks \in KeyPaths(node[k].child) } :
            k \in DOMAIN node }

EntryAt(node, ks) == NodeAt(node, SubSeq(ks, 1, Len(ks) - 1))[ks[Len(ks)]]

IsPrefix(p, q) == Len(p) <= Len(q) /\ SubSeq(q, 1, Len(p)) = p

Superseded(p) == p \in superseded

\* The call populate(dir, node) on top of the stack is about to return Ok.
Returning ==
    /\ result = "running" /\ err = NoErr /\ stack # <<>>
    /\ Top.pc = "loop" /\ Top.todo = {}

HasLeaf(node, f) ==
    \E k \in DOMAIN node : node[k].src = f /\ node[k].child = EmptyNode

\* C1 as claimed: when populate(dir, node) returns Ok, node has a leaf Entry
\* for a non-directory child f of dir exactly if f's extension is one of the
\* six audio extensions, also when f shares its stem with another child.
C1_AudioOnlyInclusion ==
    Returning =>
        \A f \in Children(Top.dir) \cap fsFiles :
            HasLeaf(NodeAt(tree, Top.keys), f)
                <=> Extension(f) \in AudioExtensions

\* C1 amended: when populate(dir, node) returns Ok, node has a leaf Entry for
\* a non-directory child f of dir exactly if f's extension is (case-
\* sensitively) an audio extension and no directory or audio file of dir with
\* f's stem came after f in listing order.
C1_AudioOnlyInclusionUnlessSuperseded ==
    Returning =>
        \A f \in Children(Top.dir) \cap fsFiles :
            HasLeaf(NodeAt(tree, Top.keys), f)
                <=> (Extension(f) \in AudioExtensions /\ ~Superseded(f))

\* A populate call returns Ok on a directory that holds an audio file, a
\* file with an upper-case audio extension, and an audio file that a later
\* child of the same stem replaced.
C1_Witness ==
    /\ Returning
    /\ \E f \in Children(Top.dir) \cap fsFiles :
         Extension(f) \in AudioExtensions /\ Superseded(f)
    /\ \E f \in Children(Top.dir) \cap fsFiles :
         HasLeaf(NodeAt(tree, Top.keys), f)
    /\ \E f \in Children(Top.dir) \cap fsFiles : Extension(f) = <<"MP3">>

\* The names below base of a path below base, as Node keys.
KeysOf(p) == [ i \in 1..(Len(p) - Len(base)) |-> NameStem(p[Len(base) + i]) ]

\* The directories populate(base, tree) can reach.
Reachable ==
    { d \in fsDirs : IsDir(base) /\ IsPrefix(base, d) /\ Len(d) > Len(base) }

\* The directories and files on the way from base down to p, p included.
Lineage(p) ==
    { SubSeq(p, 1, n) : n \in (Len(base) + 1)..Len(p) }

HasEntry(node, c) == \E k \in DOMAIN node : node[k].src = c

\* C2 as claimed: after populate(root, tree) returns Ok, every directory d
\* reachable from root has an Entry with src = d under its display name at
\* its depth, whose child mapping has an Entry for every subdirectory and
\* audio file directly inside d, also when directories share a stem.
C2_RecursionCompleteness ==
    result = "Ok" =>
        \A d \in Reachable :
            /\ KeysOf(d) \in KeyPaths(tree)
            /\ EntryAt(tree, KeysOf(d)).src = d
            /\ \A c \in Children(d) :
                 Qualifies(c) => HasEntry(EntryAt(tree, KeysOf(d)).child, c)

\* C2 amended: after populate(root, tree) returns Ok, every directory d
\* reachable from root, such that neither d nor a directory between root and
\* d was followed in listing order by a directory or audio file of the same
\* stem in the same directory, has an Entry with src = d under its stem at
\* its depth, whose child mapping has an Entry for every subdirectory and
\* audio file directly inside d that was not followed in that way.
C2_RecursionCompletenessUnlessSuperseded ==
    result = "Ok" =>
        \A d \in Reachable :
            (\A a \in Lineage(d) : ~Superseded(a)) =>
                /\ KeysOf(d) \in KeyPaths(tree)
                /\ EntryAt(tree, KeysOf(d)).src = d
                /\ \A c \in Children(d) :
                     (Qualifies(c) /\ ~Superseded(c))
                        => HasEntry(EntryAt(tree, KeysOf(d)).child, c)

\* populate returned Ok on a tree with a directory two levels down whose own
\* child has an Entry, a directory with a dot in its name, and a directory
\* that a later sibling of the same stem replaced.
C2_Witness ==
    /\ result = "Ok"
    /\ \E d \in Reachable :
         /\ Len(d) = Len(base) + 2
         /\ \A a \in Lineage(d) : ~Superseded(a)
         /\ \E c \in Children(d) : Qualifies(c)
    /\ \E d \in Reachable : Extension(d) # <<>> /\ ~Superseded(d)
    /\ \E d \in Reachable : Superseded(d)

\* C3: once a read_dir or one of its entries has failed, the error stays the
\* same up to the outermost call, which returns Err and never Ok, and no
\* Entry is inserted into the tree any more.
C3_TraversalAbort ==
    /\ [](err # NoErr => result # "Ok")
    /\ [](err # NoErr /\ stack = <<>> => result = "Err")
    /\ [][err # NoErr => (err' = err /\ tree' = tree /\ yielded' = yielded)]_vars

\* The outermost call returned the error of a nested directory while a
\* sibling of an ancestor of that directory had not been listed yet, with
\* Entries already in the tree.
C3_Witness ==
    /\ result = "Err" /\ stack = <<>>
    /\ Len(err.dir) >= Len(base) + 2
    /\ tree # EmptyNode
    /\ \E c \in Children(Pop(Pop(err.dir))) :
         Qualifies(c) /\ c \notin yielded

\* C8: at every moment an Entry whose src is an audio file has no children,
\* and every populate call below the outermost one fills the child Node of
\* the Entry of the directory it lists.
C8_LeafEmptiness ==
    /\ \A e \in AllEntries(tree) : e.src \in fsFiles => e.child = EmptyNode
    /\ \A i \in 2..Len(stack) :
         /\ stack[i].dir \in fsDirs
         /\ stack[i].keys \in KeyPaths(tree)
         /\ EntryAt(tree, stack[i].keys).src = stack[i].dir

\* The Entry of an audio file took the key of a directory that had been
\* populated with an Entry of its own.
C8_WitnessFileAfterDirectory ==
    \E e \in AllEntries(tree) :
        /\ e.src \in fsFiles
        /\ \E d \in yielded \cap fsDirs :
             /\ SameKey(e.src, d)
             /\ \E c \in yielded : Pop(c) = d /\ Qualifies(c)

C10_ParentName ==
    \A ks \in KeyPaths(tree) :
        LET e == EntryAt(tree, ks)
        IN  /\ e.parent = FileStem(Pop(e.src))
            /\ Len(ks) = 1 => Pop(e.src) = base
            /\ Len(ks) > 1 =>
                 /\ e.parent = ks[Len(ks) - 1]
                 /\ EntryAt(tree, SubSeq(ks, 1, Len(ks) - 1)).src = Pop(e.src)

\* An Entry two levels down whose directory has another stem than the
\* directory above it and than the root.
C10_Witness ==
    \E ks \in KeyPaths(tree) :
        LET e == EntryAt(tree, ks)
        IN  /\ Len(ks) >= 2
            /\ e.parent # FileStem(Pop(Pop(e.src)))
            /\ e.parent # FileStem(base)
            /\ FileStem(base) # <<>>

\* The candidate extensions for which <stem of d><ext> exists inside d.
ArtInside(d) ==
    { i \in DOMAIN extensions : Exists(Push(d, FileStem(d) \o extensions[i])) }

\* The candidate extensions for which <stem of f><ext> exists next to f.
ArtBeside(f) ==
    { i \in DOMAIN extensions :
        Exists(Push(Pop(f), FileStem(f) \o extensions[i])) }

\* The art file of the directory d that comes first in the precedence.
FirstArtInside(d) == Push(d, FileStem(d) \o extensions[Min(ArtInside(d))])

\* Whether a directory or file of the library has an art file of its own.
HasOwnArt(p) == IF p \in fsDirs THEN ArtInside(p) # {} ELSE ArtBeside(p) # {}

\* C4 as claimed: in the tree populate built, an Entry below a directory A
\* that has an art file takes A's art when neither the Entry's own path nor
\* a directory between A and it has an art file of its own, at any depth.
C4_ArtCascade ==
    result = "Ok" =>
        \A e \in AllEntries(tree) :
            \A n \in Len(base)..(Len(e.src) - 1) :
                LET A == SubSeq(e.src, 1, n)
                IN  (/\ FileStem(A) # <<>>
                     /\ ArtInside(A) # {}
                     /\ \A m \in (n + 1)..Len(e.src) :
                          ~HasOwnArt(SubSeq(e.src, 1, m)))
                    => e.art = FirstArtInside(A)

\* C6 as claimed: the leaf Entry of an audio file f with no art file next to
\* it takes the art file <P-stem><ext> inside its directory P that comes
\* first in the precedence, whenever one exists.
C6_ArtFallback ==
    \A e \in AllEntries(tree) :
        LET P == Pop(e.src)
        IN  (e.src \in fsFiles /\ ArtBeside(e.src) = {} /\ ArtInside(P) # {})
                => e.art = FirstArtInside(P)

\* C6 amended: the leaf Entry of an audio file f with no art file next to it
\* takes the art file <P-stem><ext> inside its directory P that comes first
\* in the precedence, whenever one exists and the stem of P is not empty (P
\* is not a path without a file name, such as "/").
C6_ArtFallbackOfNamedParent ==
    \A e \in AllEntries(tree) :
        LET P == Pop(e.src)
        IN  (/\ e.src \in fsFiles /\ ArtBeside(e.src) = {}
             /\ FileStem(P) # <<>> /\ ArtInside(P) # {})
                => e.art = FirstArtInside(P)

\* A leaf Entry took the second art file of its directory in the precedence
\* list's order, the directory holding two, and none next to the file.
C6_Witness ==
    \E e \in AllEntries(tree) :
        LET P == Pop(e.src)
        IN  /\ e.src \in fsFiles /\ ArtBeside(e.src) = {}
            /\ FileStem(P) # <<>> /\ Cardinality(ArtInside(P)) >= 2
            /\ e.art = FirstArtInside(P)

\* The candidate extensions of the self-search of a path that exist: inside
\* the path if it is a directory, next to it if not.
SelfHits(path) == IF IsDir(path) THEN ArtInside(path) ELSE ArtBeside(path)

\* The candidate extensions of the parent fallback of a path that exist.
ParentHits(path) == ArtInside(Pop(path))

====
